---- MODULE Spec2Model ----
(***************************************************************************)
(* A model of the protocol adapter and tool contract of the agent:         *)
(*   client/llm_client.py   LLMClient (get_client, chat_completion, close) *)
(*   tools/base.py          ToolResult, Tool.is_mutating, get_confirmation *)
(*   tools/builtin/scout.py ScoutTool.execute                              *)
(*                                                                         *)
(* Text is modelled as a sequence of lexemes.  A lexeme is a pair          *)
(* <<class, text>>: punctuation, the digit 1, a double-quoted string, a    *)
(* single-quoted string, or a blank.  json.loads, ast.literal_eval and     *)
(* json.dumps are modelled as parsers and a printer over such sequences.   *)
(***************************************************************************)
EXTENDS Integers, Sequences, FiniteSets, TLC

\* ------------------------------------------------------------------ bounds

\* Longest argument string (in lexemes) drawn for the sanitizer.
MaxLen == 5
\* Most chunks the provider sends in one stream.
MaxChunks == 3
\* Number of memory addresses a tool-call fragment object can be allocated at.
NumAddr == 3
\* Most messages in the caller's history, and most tool calls in one message.
MaxMsgs == 2
MaxCalls == 1
\* Most connection objects created on one LLMClient.
MaxConns == 3

\* ------------------------------------------------------------ python values

\* A Python value: int (n ones: 1, 11, ...), str, dict (no or one item),
\* set (one element), or None.  kids holds <<key, value>> or <<element>>.
PyInt(n) == [t |-> "int", n |-> n, s |-> "", kids |-> <<>>]
PyStr(s) == [t |-> "str", n |-> 0, s |-> s, kids |-> <<>>]
PyNone == [t |-> "none", n |-> 0, s |-> "", kids |-> <<>>]
PyEmptyDict == [t |-> "dict", n |-> 0, s |-> "", kids |-> <<>>]
PyDict(k, v) == [t |-> "dict", n |-> 0, s |-> "", kids |-> <<k, v>>]
PySet(e) == [t |-> "set", n |-> 0, s |-> "", kids |-> <<e>>]

\* Python's hashable values among these: dicts and sets are not.
Hashable(v) == v.t \in {"int", "str", "none"}

\* ----------------------------------------------------------------- lexemes

LB == <<"p", "{">>
RB == <<"p", "}">>
COLON == <<"p", ":">>
ONE == <<"d", "1">>
SP == <<"w", " ">>
DQ(s) == <<"dq", s>>
SQ(s) == <<"sq", s>>
NULL == <<"k", "null">>

IsStrLex(x) == x[1] \in {"dq", "sq"}

\* The decimal text of the int made of n ones.
RECURSIVE Ones(_)
Ones(n) == IF n = 0 THEN "" ELSE "1" \o Ones(n - 1)

RECURSIVE OneLexemes(_)
OneLexemes(n) == IF n = 0 THEN <<>> ELSE <<ONE>> \o OneLexemes(n - 1)

\* First position at or after i that holds no blank.
RECURSIVE SkipSp(_, _)
SkipSp(s, i) == IF i <= Len(s) /\ s[i] = SP THEN SkipSp(s, i + 1) ELSE i

\* First position at or after i that holds no digit.
RECURSIVE NumEnd(_, _)
NumEnd(s, i) == IF i <= Len(s) /\ s[i] = ONE THEN NumEnd(s, i + 1) ELSE i

At(s, i, x) == i <= Len(s) /\ s[i] = x

ParseOk(v, next) == [ok |-> TRUE, v |-> v, next |-> next]
ParseFail == [ok |-> FALSE, v |-> PyNone, next |-> 0]

\* Body applied to the value e: a local variable.
With(e, Body(_)) == Body(e)

\* The outcome of parsing a whole text from the outcome r of parsing one
\* value at its start: nothing but blanks may follow the value.
Whole(s, r) ==
    IF r.ok /\ SkipSp(s, r.next) = Len(s) + 1 THEN [ok |-> TRUE, v |-> r.v]
    ELSE [ok |-> FALSE, v |-> PyNone]

\* ---------------------------------------------------------------- json.loads

\* One JSON value starting at i: a number, a double-quoted string, null, {} or
\* {"key": value}.
RECURSIVE JsonValue(_, _)
JsonValue(s, i) ==
    With(SkipSp(s, i), LAMBDA j :
    IF j > Len(s) THEN ParseFail
    ELSE IF s[j] = ONE THEN With(NumEnd(s, j), LAMBDA e : ParseOk(PyInt(e - j), e))
    ELSE IF s[j][1] = "dq" THEN ParseOk(PyStr(s[j][2]), j + 1)
    ELSE IF s[j] = NULL THEN ParseOk(PyNone, j + 1)
    ELSE IF s[j] = LB THEN
        With(SkipSp(s, j + 1), LAMBDA k :
        IF At(s, k, RB) THEN ParseOk(PyEmptyDict, k + 1)
        ELSE IF k <= Len(s) /\ s[k][1] = "dq" /\ At(s, SkipSp(s, k + 1), COLON) THEN
            With(JsonValue(s, SkipSp(s, k + 1) + 1), LAMBDA r :
            IF r.ok THEN
                With(SkipSp(s, r.next), LAMBDA e :
                IF At(s, e, RB) THEN ParseOk(PyDict(PyStr(s[k][2]), r.v), e + 1)
                ELSE ParseFail)
            ELSE ParseFail)
        ELSE ParseFail)
    ELSE ParseFail)

\* json.loads(s): ok is FALSE where it raises JSONDecodeError.
JsonLoads(s) == Whole(s, JsonValue(s, 1))

\* ---------------------------------------------------------- ast.literal_eval

\* The text of the adjacent string literals starting at i (Python joins
\* them, across blanks), and the position after the last one.
RECURSIVE StrRun(_, _)
StrRun(s, i) ==
    With(SkipSp(s, i + 1), LAMBDA j :
    IF j <= Len(s) /\ IsStrLex(s[j])
    THEN With(StrRun(s, j), LAMBDA r : [text |-> s[i][2] \o r.text, next |-> r.next])
    ELSE [text |-> s[i][2], next |-> i + 1])

\* One Python literal starting at i: an int, a string in either quoting,
\* {}, a dict display {k: v} or a set display {e}.  A dict key or set
\* element that is not hashable raises TypeError.
RECURSIVE PyValue(_, _)
PyValue(s, i) ==
    With(SkipSp(s, i), LAMBDA j :
    IF j > Len(s) THEN ParseFail
    ELSE IF s[j] = ONE THEN With(NumEnd(s, j), LAMBDA e : ParseOk(PyInt(e - j), e))
    ELSE IF IsStrLex(s[j]) THEN With(StrRun(s, j), LAMBDA r : ParseOk(PyStr(r.text), r.next))
    ELSE IF s[j] = LB THEN
        With(SkipSp(s, j + 1), LAMBDA k :
        IF At(s, k, RB) THEN ParseOk(PyEmptyDict, k + 1)
        ELSE
            With(PyValue(s, k), LAMBDA a :
            IF ~a.ok \/ ~Hashable(a.v) THEN ParseFail
            ELSE
                With(SkipSp(s, a.next), LAMBDA c :
                IF At(s, c, RB) THEN ParseOk(PySet(a.v), c + 1)
                ELSE IF At(s, c, COLON) THEN
                    With(PyValue(s, c + 1), LAMBDA b :
                    IF b.ok THEN
                        With(SkipSp(s, b.next), LAMBDA e :
                        IF At(s, e, RB) THEN ParseOk(PyDict(a.v, b.v), e + 1)
                        ELSE ParseFail)
                    ELSE ParseFail)
                ELSE ParseFail)))
    ELSE ParseFail)

\* ast.literal_eval(s): ok is FALSE where it raises.
LiteralEval(s) == Whole(s, PyValue(s, 1))

\* ---------------------------------------------------------------- json.dumps

\* The text of a dict key: an int is written as its decimal text.
KeyLexeme(k) == IF k.t = "int" THEN DQ(Ones(k.n))
                ELSE IF k.t = "none" THEN DQ("null") ELSE DQ(k.s)

\* json.dumps(v) with the default separators; a set raises TypeError.
RECURSIVE JsonDumps(_)
JsonDumps(v) ==
    IF v.t = "int" THEN [ok |-> TRUE, text |-> OneLexemes(v.n)]
    ELSE IF v.t = "str" THEN [ok |-> TRUE, text |-> <<DQ(v.s)>>]
    ELSE IF v.t = "none" THEN [ok |-> TRUE, text |-> <<NULL>>]
    ELSE IF v.t = "dict" THEN
        IF v.kids = <<>> THEN [ok |-> TRUE, text |-> <<LB, RB>>]
        ELSE With(JsonDumps(v.kids[2]), LAMBDA r :
             IF r.ok THEN [ok |-> TRUE,
                           text |-> <<LB, KeyLexeme(v.kids[1]), COLON, SP>> \o r.text \o <<RB>>]
             ELSE [ok |-> FALSE, text |-> <<>>])
    ELSE [ok |-> FALSE, text |-> <<>>]

\* ------------------------------------------------- tool-call argument values

\* The value of an "arguments" field: a structured Python value, a string
\* (its text), or None / key absent.
AVal(v) == [kind |-> "value", v |-> v, text |-> <<>>]
AStr(text) == [kind |-> "str", v |-> PyNone, text |-> text]
ANone == [kind |-> "none", v |-> PyNone, text |-> <<>>]

\* llm_client.py lines 33-50: the repair of one tool call's arguments.
\* raised is TRUE where an exception leaves the block.
SanitizeArgs(a) ==
    IF a.kind = "value" /\ a.v.t = "dict" THEN
        With(JsonDumps(a.v), LAMBDA d :
        IF d.ok THEN [raised |-> FALSE, a |-> AStr(d.text)] ELSE [raised |-> TRUE, a |-> a])
    ELSE IF a.kind = "str" /\ ~JsonLoads(a.text).ok THEN
        With(LiteralEval(a.text), LAMBDA lit :
        IF lit.ok THEN
            With(JsonDumps(lit.v), LAMBDA d :
            IF d.ok THEN [raised |-> FALSE, a |-> AStr(d.text)] ELSE [raised |-> FALSE, a |-> a])
        ELSE [raised |-> FALSE, a |-> a])
    ELSE [raised |-> FALSE, a |-> a]

\* llm_client.py lines 84-87: the decoding of a streamed fragment's
\* arguments; None and "" are read as "{}".
DecodeArgs(a) ==
    With(JsonLoads(IF a.kind = "str" /\ a.text # <<>> THEN a.text ELSE <<LB, RB>>), LAMBDA r :
    IF r.ok THEN AVal(r.v) ELSE a)

\* -------------------------------------------------------------------- state

VARIABLES
    \* LLMClient: the cached connection object (0 is None), the number of
    \* connection objects created so far, and those that were closed.
    client, nextConn, closedConns,
    \* The connection objects get_client has returned and created since the
    \* last close (or since construction), and the last operation on the
    \* connection: "get_client", "chat", "close", or "none" so far.
    issued, created, lastOp,
    \* The objects in memory, the caller's message list, and the objects as
    \* they were when the caller built them.
    heap, messages, heap0,
    \* One chat_completion call: its stream argument, its position, its local
    \* client, the list it sent (0: nothing sent), the events it has yielded.
    stream, pc, localClient, sent, events,
    \* The streaming loop: the chunk in hand, the number of events it
    \* produced, the address of the object bound to tc (0: unbound), the
    \* number of chunks received, and the step of the call that failed.
    chunk, nOut, tcAddr, nChunks, failure,
    \* One application of the argument repair: input, result, position.
    sanArg, sanOut, sanPc,
    \* One Tool and one get_confirmation call on it.
    toolKind, toolName, toolParams, toolRet, toolPc,
    \* One ScoutTool.execute call.
    scInv, scRag, scPc, scQuery, scRet

clientVars == <<client, nextConn, closedConns, issued, created, lastOp>>
heapVars == <<heap, messages, heap0>>
callVars == <<stream, pc, localClient, sent, events, chunk, nOut, tcAddr, nChunks, failure>>
sanVars == <<sanArg, sanOut, sanPc>>
toolVars == <<toolKind, toolName, toolParams, toolRet, toolPc>>
scoutVars == <<scInv, scRag, scPc, scQuery, scRet>>
vars == <<clientVars, heapVars, callVars, sanVars, toolVars, scoutVars>>

\* ------------------------------------------------------- the argument repair

\* All lexeme sequences of length at most n over the alphabet.
Alphabet == {LB, RB, COLON, ONE, DQ("a"), SQ("a")}
RECURSIVE Texts(_)
Texts(n) == IF n = 0 THEN {<<>>}
            ELSE Texts(n - 1) \cup {Append(t, x) : t \in {u \in Texts(n - 1) : Len(u) = n - 1}, x \in Alphabet}

\* Python values a caller can hold in a mapping: atoms, {} and a set.
Atoms == {PyInt(1), PyStr("a")}
Leaves == Atoms \cup {PyEmptyDict, PySet(PyInt(1)), PyDict(PyStr("a"), PyInt(1))}
Mappings == {PyEmptyDict} \cup {PyDict(k, v) : k \in Atoms, v \in Leaves}

SanInputs == {AStr(t) : t \in Texts(MaxLen)} \cup {AVal(m) : m \in Mappings} \cup {ANone}

NoResult == [raised |-> FALSE, a |-> ANone]

SanIdle == sanArg = ANone /\ sanOut = NoResult /\ sanPc = "off"

\* The repair applied to one arguments value.
Sanitize ==
    /\ sanPc = "ready"
    /\ sanOut' = SanitizeArgs(sanArg)
    /\ sanPc' = "done"
    /\ UNCHANGED <<sanArg, clientVars, heapVars, callVars, toolVars, scoutVars>>

\* --------------------------------------------------------------- the objects

\* An object in memory: a list (items), a message dict (tool_calls: the
\* list it refers to, 0 when the key is absent), a tool-call dict (function:
\* the dict it refers to) or a function dict (arguments).
MkList(items) == [kind |-> "list", items |-> items, tool_calls |-> 0, function |-> 0, arguments |-> ANone]
MkMsg(tcs) == [kind |-> "msg", items |-> <<>>, tool_calls |-> tcs, function |-> 0, arguments |-> ANone]
MkTc(f) == [kind |-> "tc", items |-> <<>>, tool_calls |-> 0, function |-> f, arguments |-> ANone]
MkFunc(a) == [kind |-> "func", items |-> <<>>, tool_calls |-> 0, function |-> 0, arguments |-> a]

\* A new object: the memory with it, and its reference.
Alloc(h, obj) == [heap |-> Append(h, obj), ref |-> Len(h) + 1]

\* Mutant of CopyDict: no copy is made, the dict itself is used.
CopyDictAlias(h, r) == [heap |-> h, ref |-> r]

\* dict(x): a new dict with the items of x (the values are shared).
CopyDict(h, r) == Alloc(h, h[r])

\* The caller's history, built from a description: a sequence of messages,
\* each [tc |-> whether it has tool_calls, calls |-> the arguments of each].
RECURSIVE BuildCalls(_, _, _, _)
BuildCalls(h, calls, i, acc) ==
    IF i > Len(calls) THEN [heap |-> h, refs |-> acc]
    ELSE LET f == Alloc(h, MkFunc(calls[i]))
             t == Alloc(f.heap, MkTc(f.ref))
         IN  BuildCalls(t.heap, calls, i + 1, Append(acc, t.ref))

BuildMsg(h, d) ==
    IF d.tc THEN LET c == BuildCalls(h, d.calls, 1, <<>>)
                     l == Alloc(c.heap, MkList(c.refs))
                 IN  Alloc(l.heap, MkMsg(l.ref))
    ELSE Alloc(h, MkMsg(0))

RECURSIVE BuildMsgs(_, _, _, _)
BuildMsgs(h, ds, i, acc) ==
    IF i > Len(ds) THEN Alloc(h, MkList(acc))
    ELSE LET m == BuildMsg(h, ds[i]) IN BuildMsgs(m.heap, ds, i + 1, Append(acc, m.ref))

RECURSIVE SeqsUpTo(_, _)
SeqsUpTo(S, n) == IF n = 0 THEN {<<>>}
                  ELSE SeqsUpTo(S, n - 1) \cup {Append(t, x) : t \in {u \in SeqsUpTo(S, n - 1) : Len(u) = n - 1}, x \in S}

\* Arguments of the prior tool calls of a history: a mapping, a mapping
\* holding a set, a single-quoted string, and a string that is no literal.
CallArgs == {AVal(PyDict(PyStr("a"), PyInt(1))), AVal(PyDict(PyStr("a"), PySet(PyInt(1)))),
             AStr(<<LB, SQ("a"), COLON, ONE, RB>>), AStr(<<LB>>)}
MsgDescs == {[tc |-> FALSE, calls |-> <<>>]} \cup {[tc |-> TRUE, calls |-> c] : c \in SeqsUpTo(CallArgs, MaxCalls)}
Histories == SeqsUpTo(MsgDescs, MaxMsgs)

\* Three histories: empty, one repairable tool call, one that cannot be
\* serialized.
FewHistories == {<<>>,
                 <<[tc |-> TRUE, calls |-> <<AStr(<<LB, SQ("a"), COLON, ONE, RB>>)>>]>>,
                 <<[tc |-> TRUE, calls |-> <<AVal(PyDict(PyStr("a"), PySet(PyInt(1))))>>]>>}

\* ------------------------------------------- chat_completion: sanitization

\* llm_client.py lines 31-53: one tool call of a message, given the
\* outcome acc of the ones before it.
SanitizeCall(acc, tc) ==
    IF acc.raised THEN acc
    ELSE With(CopyDict(acc.heap, tc), LAMBDA new_tc :
         With(CopyDict(new_tc.heap, new_tc.heap[new_tc.ref].function), LAMBDA func :
         With(SanitizeArgs(func.heap[func.ref].arguments), LAMBDA r :
         IF r.raised THEN [heap |-> func.heap, raised |-> TRUE, refs |-> acc.refs]
         ELSE [heap |-> [func.heap EXCEPT ![func.ref].arguments = r.a,
                                          ![new_tc.ref].function = func.ref],
               raised |-> FALSE, refs |-> Append(acc.refs, new_tc.ref)])))

\* llm_client.py lines 29-53: the loop over one message's tool calls.
SanitizeCalls(h, items) ==
    LET done[i \in 0..Len(items)] ==
            IF i = 0 THEN [heap |-> h, raised |-> FALSE, refs |-> <<>>]
            ELSE SanitizeCall(done[i - 1], items[i])
    IN  done[Len(items)]

\* llm_client.py lines 27-55: one message, given the outcome acc of the
\* ones before it.
SanitizeMsg(acc, msg) ==
    IF acc.raised THEN acc
    ELSE With(CopyDict(acc.heap, msg), LAMBDA m :
         With(m.heap[m.ref].tool_calls, LAMBDA tcs :
         IF tcs # 0 /\ m.heap[tcs].items # <<>> THEN
             With(SanitizeCalls(m.heap, m.heap[tcs].items), LAMBDA c :
             With(Alloc(c.heap, MkList(c.refs)), LAMBDA l :
             IF c.raised THEN [heap |-> c.heap, raised |-> TRUE, refs |-> acc.refs]
             ELSE [heap |-> [l.heap EXCEPT ![m.ref].tool_calls = l.ref],
                   raised |-> FALSE, refs |-> Append(acc.refs, m.ref)]))
         ELSE [heap |-> m.heap, raised |-> FALSE, refs |-> Append(acc.refs, m.ref)]))

\* llm_client.py lines 25-55: sanitized_messages (ref), or the exception.
SanitizeMsgs(h, msgs) ==
    LET done[i \in 0..Len(msgs)] ==
            IF i = 0 THEN [heap |-> h, raised |-> FALSE, refs |-> <<>>]
            ELSE SanitizeMsg(done[i - 1], msgs[i])
    IN  With(done[Len(msgs)], LAMBDA last :
        With(Alloc(last.heap, MkList(last.refs)), LAMBDA l :
        IF last.raised THEN [heap |-> last.heap, raised |-> TRUE, ref |-> 0]
        ELSE [heap |-> l.heap, raised |-> FALSE, ref |-> l.ref]))

\* ------------------------------------------------------------------- events

\* Text content: None, or a string.
CNone == [none |-> TRUE, text |-> ""]
CStr(t) == [none |-> FALSE, text |-> t]
Truthy(c) == ~c.none /\ c.text # ""

\* A call_id: the provider's (n: the chunk it came with) or "call_<n>"
\* made from an address.
NoId == [src |-> "", n |-> 0]
ProviderId(n) == [src |-> "provider", n |-> n]
SynthId(addr) == [src |-> "call_", n |-> addr]

\* TextDelta(content=...) of client/response.py: the value with that
\* content, whatever it is.
TextDelta(content) == [content |-> content]
NoTextDelta == [content |-> CNone]

TextDeltaEvent(c) ==
    [type |-> "TEXT_DELTA", text_delta |-> TextDelta(c), call_id |-> NoId, name |-> "", arguments |-> ANone, error |-> ""]
ToolCallEvent(id, name, args) ==
    [type |-> "TOOL_CALL_COMPLETE", text_delta |-> NoTextDelta, call_id |-> id, name |-> name, arguments |-> args, error |-> ""]
CompleteEvent ==
    [type |-> "MESSAGE_COMPLETE", text_delta |-> NoTextDelta, call_id |-> NoId, name |-> "", arguments |-> ANone, error |-> ""]
ErrorEvent(msg) ==
    [type |-> "ERROR", text_delta |-> NoTextDelta, call_id |-> NoId, name |-> "", arguments |-> ANone, error |-> msg]

\* ------------------------------------------------------------------- chunks

\* A chunk of the stream: whether choices is non-empty, delta.content,
\* whether delta.tool_calls is non-empty, and tool_calls[0]: its id (NoId
\* when the provider omits it), whether function is set, function.name and
\* function.arguments.
Chunk(choices, content, has_tc, id, has_fn, name, args) ==
    [choices |-> choices, content |-> content, has_tc |-> has_tc, id |-> id,
     has_fn |-> has_fn, name |-> name, args |-> args]
NoChunk == Chunk(FALSE, CNone, FALSE, NoId, FALSE, "", ANone)

\* Arguments of a streamed fragment: absent, a JSON object, a single-quoted
\* literal, and a broken fragment.
ChunkArgs == {ANone, AStr(<<LB, DQ("a"), COLON, ONE, RB>>),
              AStr(<<LB, SQ("a"), COLON, ONE, RB>>), AStr(<<LB>>)}

\* The n-th chunk the provider may send: nothing, text (possibly empty), a
\* first fragment of a tool call without id, one with the provider's id, a
\* later fragment (no name), text with a tool call, and a fragment whose
\* function is None.
Chunks(n) ==
    {NoChunk}
    \cup {Chunk(TRUE, c, FALSE, NoId, FALSE, "", ANone) : c \in {CNone, CStr(""), CStr("hi")}}
    \cup {Chunk(TRUE, CNone, TRUE, NoId, TRUE, "ls", a) : a \in ChunkArgs}
    \cup {Chunk(TRUE, CNone, TRUE, ProviderId(n), TRUE, "ls", AStr(<<LB, DQ("a"), COLON, ONE, RB>>)),
          Chunk(TRUE, CNone, TRUE, NoId, TRUE, "", AStr(<<LB>>)),
          Chunk(TRUE, CStr("hi"), TRUE, NoId, TRUE, "ls", ANone),
          Chunk(TRUE, CStr("hi"), TRUE, NoId, FALSE, "", ANone)}

\* llm_client.py lines 73-78: the text of a chunk.
ChunkText(c) ==
    IF c.choices /\ Truthy(c.content) THEN <<TextDeltaEvent(c.content)>> ELSE <<>>

\* llm_client.py lines 80-96: the tool call of a chunk whose tool_calls[0]
\* is the object at addr.
ChunkToolCall(c, addr) ==
    IF c.choices /\ c.has_tc /\ c.has_fn /\ c.name # ""
    THEN <<ToolCallEvent(IF c.id # NoId THEN c.id ELSE SynthId(addr), c.name, DecodeArgs(c.args))>>
    ELSE <<>>

\* Reading function.name of a fragment whose function is None raises.
ChunkRaises(c) == c.choices /\ c.has_tc /\ ~c.has_fn

\* ------------------------------------------------------------ the connection

\* llm_client.py lines 15-18, get_client: creates the connection object when
\* none is cached; the object it returns is the cached one.
DoGetClient ==
    /\ client = 0 => nextConn < MaxConns
    /\ client' = IF client = 0 THEN nextConn + 1 ELSE client
    /\ nextConn' = IF client = 0 THEN nextConn + 1 ELSE nextConn
    /\ created' = IF client = 0 THEN created \cup {nextConn + 1} ELSE created
    /\ issued' = issued \cup {client'}
    /\ closedConns' = closedConns

GetClient ==
    /\ DoGetClient
    /\ lastOp' = "get_client"
    /\ UNCHANGED <<heapVars, callVars, sanVars, toolVars, scoutVars>>

\* Mutant of Close: the object is closed and stays cached.
CloseKeepsCache ==
    /\ closedConns' = IF client # 0 THEN closedConns \cup {client} ELSE closedConns
    /\ issued' = {}
    /\ created' = {}
    /\ lastOp' = "close"
    /\ UNCHANGED <<client, nextConn, heapVars, callVars, sanVars, toolVars, scoutVars>>

\* llm_client.py lines 108-111, close: closes the cached object, if any,
\* and forgets it.
Close ==
    /\ closedConns' = IF client # 0 THEN closedConns \cup {client} ELSE closedConns
    /\ client' = 0
    /\ issued' = {}
    /\ created' = {}
    /\ lastOp' = "close"
    /\ UNCHANGED <<nextConn, heapVars, callVars, sanVars, toolVars, scoutVars>>

\* ------------------------------------------------------------ chat_completion

\* llm_client.py lines 20-67: the first step of the generator, up to the
\* request: get_client, then the sanitized copy of the history.  An
\* exception of the sanitization leaves the generator.
ChatStart ==
    /\ pc = "idle"
    /\ DoGetClient
    /\ lastOp' = "chat"
    /\ localClient' = client'
    /\ LET r == SanitizeMsgs(heap, heap[messages].items) IN
        /\ heap' = r.heap
        /\ sent' = r.ref
        /\ pc' = IF r.raised THEN "raised" ELSE "requested"
        /\ failure' = IF r.raised THEN "sanitize" ELSE "none"
    /\ events' = <<>>
    /\ chunk' = NoChunk
    /\ nOut' = 0
    /\ tcAddr' = 0
    /\ nChunks' = 0
    /\ UNCHANGED <<messages, heap0, stream, sanVars, toolVars, scoutVars>>

\* llm_client.py lines 69 and 104-106: the request fails (connection,
\* timeout, status); the handler yields ERROR and the generator ends.
CreateFail ==
    /\ pc = "requested"
    /\ events' = Append(events, ErrorEvent("Connection error."))
    /\ pc' = "done"
    /\ failure' = "request"
    /\ UNCHANGED <<clientVars, heapVars, stream, localClient, sent, chunk, nOut, tcAddr, nChunks,
                   sanVars, toolVars, scoutVars>>

\* llm_client.py lines 69-71: the request returns a stream.
CreateOkStream ==
    /\ pc = "requested"
    /\ stream
    /\ pc' = "streaming"
    /\ UNCHANGED <<clientVars, heapVars, stream, localClient, sent, events, chunk, nOut, tcAddr,
                   nChunks, failure, sanVars, toolVars, scoutVars>>

\* llm_client.py lines 72-96: the next chunk.  Its tool_calls[0] is a new
\* object, at an address no live object has: the one bound to tc is live.
ChunkArrives ==
    /\ pc = "streaming"
    /\ nChunks < MaxChunks
    /\ \E c \in Chunks(nChunks + 1), addr \in (1..NumAddr) \ {tcAddr} :
        /\ chunk' = c
        /\ nChunks' = nChunks + 1
        /\ tcAddr' = IF c.choices /\ c.has_tc THEN addr ELSE tcAddr
        /\ IF ChunkRaises(c)
           THEN /\ events' = events \o ChunkText(c) \o <<ErrorEvent("'NoneType' object has no attribute 'name'")>>
                /\ nOut' = Len(ChunkText(c)) + 1
                /\ pc' = "done"
                /\ failure' = "decode"
           ELSE /\ events' = events \o ChunkText(c) \o ChunkToolCall(c, addr)
                /\ nOut' = Len(ChunkText(c)) + Len(ChunkToolCall(c, addr))
                /\ pc' = "streaming"
                /\ failure' = failure
    /\ UNCHANGED <<clientVars, heapVars, stream, localClient, sent, sanVars, toolVars, scoutVars>>

\* Mutant of StreamEnd: the generator ends without MESSAGE_COMPLETE.
StreamEndSilent ==
    /\ pc = "streaming"
    /\ pc' = "done"
    /\ UNCHANGED <<clientVars, heapVars, stream, localClient, sent, events, chunk, nOut, tcAddr,
                   nChunks, failure, sanVars, toolVars, scoutVars>>

\* llm_client.py line 98: the stream is exhausted.
StreamEnd ==
    /\ pc = "streaming"
    /\ events' = Append(events, CompleteEvent)
    /\ pc' = "done"
    /\ UNCHANGED <<clientVars, heapVars, stream, localClient, sent, chunk, nOut, tcAddr, nChunks,
                   failure, sanVars, toolVars, scoutVars>>

\* llm_client.py lines 72 and 104-106: reading the next chunk fails.
StreamFail ==
    /\ pc = "streaming"
    /\ events' = Append(events, ErrorEvent("Request timed out."))
    /\ pc' = "done"
    /\ failure' = "stream"
    /\ UNCHANGED <<clientVars, heapVars, stream, localClient, sent, chunk, nOut, tcAddr, nChunks,
                   sanVars, toolVars, scoutVars>>

\* A non-streaming response: whether choices is non-empty, and
\* choices[0].message.content.
Responses == {[choices |-> FALSE, content |-> CNone]}
             \cup {[choices |-> TRUE, content |-> c] : c \in {CNone, CStr(""), CStr("hi")}}

\* llm_client.py lines 69 and 100-101: the request returns a response, and
\* its content is yielded as TEXT_DELTA.  An empty choices raises
\* IndexError, which the handler turns into ERROR.
CreateOkNonStream ==
    /\ pc = "requested"
    /\ ~stream
    /\ \E resp \in Responses :
        IF resp.choices
        THEN /\ events' = Append(events, TextDeltaEvent(resp.content))
             /\ pc' = "yielded"
             /\ failure' = failure
        ELSE /\ events' = Append(events, ErrorEvent("list index out of range"))
             /\ pc' = "done"
             /\ failure' = "decode"
    /\ UNCHANGED <<clientVars, heapVars, stream, localClient, sent, chunk, nOut, tcAddr, nChunks,
                   sanVars, toolVars, scoutVars>>

\* llm_client.py line 102.
NonStreamComplete ==
    /\ pc = "yielded"
    /\ events' = Append(events, CompleteEvent)
    /\ pc' = "done"
    /\ UNCHANGED <<clientVars, heapVars, stream, localClient, sent, chunk, nOut, tcAddr, nChunks,
                   failure, sanVars, toolVars, scoutVars>>

\* The caller is done with the call (the generator is exhausted, or its
\* exception was received) and may make the next one; the copy the call
\* made of the history is unreachable and freed.
Return ==
    /\ pc \in {"done", "raised"}
    /\ pc' = "idle"
    /\ heap' = SubSeq(heap, 1, Len(heap0))
    /\ sent' = 0
    /\ UNCHANGED <<clientVars, messages, heap0, stream, localClient, events, chunk, nOut, tcAddr,
                   nChunks, failure, sanVars, toolVars, scoutVars>>

\* ------------------------------------------------------------ the tool contract

ToolKinds == {"read", "write", "shell", "network", "memory", "mcp"}
ToolNames == {"base_tool", "codebase_scout", "shell"}

\* Mutant of IsMutating: MEMORY is left out of the mutating kinds.
IsMutatingNoMemory(kind, params) == kind \in {"write", "shell", "network"}

\* base.py lines 143-149, Tool.is_mutating.
IsMutating(kind, params) == kind \in {"write", "shell", "network", "memory"}

\* base.py lines 97-106, ToolConfirmation(tool_name, params, description)
\* with the defaults of its other fields.
ToolConfirmation(name, params, description) ==
    [tool_name |-> name, params |-> params, description |-> description,
     diff |-> "None", affected_paths |-> <<>>, command |-> "None", is_dangerous |-> FALSE]

NoConfirmation == [none |-> TRUE, conf |-> ToolConfirmation("", PyNone, "")]

\* base.py lines 151-161, Tool.get_confirmation.
GetConfirmationOf(kind, name, params) ==
    IF ~IsMutating(kind, params) THEN NoConfirmation
    ELSE [none |-> FALSE, conf |-> ToolConfirmation(name, params, "Execute " \o name)]

GetConfirmation ==
    /\ toolPc = "ready"
    /\ toolRet' = GetConfirmationOf(toolKind, toolName, toolParams)
    /\ toolPc' = "done"
    /\ UNCHANGED <<toolKind, toolName, toolParams, clientVars, heapVars, callVars, sanVars, scoutVars>>

\* ------------------------------------------------------------------ ScoutTool

\* base.py lines 55-64: the generated __init__ of the dataclass ToolResult.
\* success and output have no default: a call that leaves one out raises
\* TypeError.  kw is the record of the keyword arguments given.
NewToolResult(kw) ==
    IF {"success", "output"} \subseteq DOMAIN kw
    THEN [raised |-> FALSE, success |-> kw.success, output |-> kw.output,
          error |-> IF "error" \in DOMAIN kw THEN kw.error ELSE "None"]
    ELSE [raised |-> TRUE, success |-> FALSE, output |-> "", error |-> "TypeError"]

NoToolResult == [raised |-> FALSE, success |-> FALSE, output |-> "", error |-> "None"]

\* What execute is called with: a ToolInvocation (params, cwd), an object
\* with an arguments attribute (a mapping, or None), or a dict (with or
\* without the key "arguments").  query is the "query" entry of the
\* mapping: "absent" when there is none.
Queries == {"absent", "", "auth", "stream"}
Invocations ==
    {[shape |-> sh, query |-> q] : sh \in {"ToolInvocation", "has_arguments", "dict"}, q \in Queries}
    \cup {[shape |-> "arguments_none", query |-> "absent"], [shape |-> "dict_no_arguments", query |-> "absent"]}

\* The collaborator: chromadb not installed, initialisation failed
\* (collection is None), query raising, query without or with matches.
RagStates == {"missing", "init_failed", "raises", "empty", "hits"}

\* scout.py lines 99-107: the query, or the ToolResult call of the handler.
ScoutParse ==
    /\ scPc = "start"
    /\ IF scInv.shape = "arguments_none"
       THEN /\ scRet' = NewToolResult([error |-> "Could not parse query arguments."])
            /\ scPc' = IF scRet'.raised THEN "raised" ELSE "returned"
            /\ scQuery' = scQuery
       ELSE /\ scQuery' = IF scInv.shape \in {"has_arguments", "dict"} THEN scInv.query ELSE "absent"
            /\ scPc' = "parsed"
            /\ scRet' = scRet
    /\ UNCHANGED <<scInv, scRag, clientVars, heapVars, callVars, sanVars, toolVars>>

\* scout.py lines 109-113.
ScoutCheck ==
    /\ scPc = "parsed"
    /\ IF scQuery \in {"absent", ""}
       THEN /\ scRet' = NewToolResult([error |-> "No query provided."])
            /\ scPc' = IF scRet'.raised THEN "raised" ELSE "returned"
       ELSE IF scRag \in {"missing", "init_failed"}
       THEN /\ scRet' = NewToolResult([error |-> "RAG Error: ChromaDB not available."])
            /\ scPc' = IF scRet'.raised THEN "raised" ELSE "returned"
       ELSE /\ scRet' = scRet
            /\ scPc' = "querying"
    /\ UNCHANGED <<scInv, scRag, scQuery, clientVars, heapVars, callVars, sanVars, toolVars>>

\* scout.py lines 115-132: the query and the result.  A TypeError of the
\* ToolResult call at line 129 is caught at line 131, whose own ToolResult
\* call is outside any try.
ScoutQuery ==
    /\ scPc = "querying"
    /\ LET found == IF scRag = "raises" THEN NewToolResult([error |-> "Search failed"])
                    ELSE NewToolResult([success |-> IF scRag = "hits" THEN "matches" ELSE "No relevant code found."])
           ret == IF scRag # "raises" /\ found.raised
                  THEN NewToolResult([error |-> "Search failed: TypeError"])
                  ELSE found
       IN  /\ scRet' = ret
           /\ scPc' = IF ret.raised THEN "raised" ELSE "returned"
    /\ UNCHANGED <<scInv, scRag, scQuery, clientVars, heapVars, callVars, sanVars, toolVars>>

\* ---------------------------------------------------------- specifications

ClientInit ==
    client = 0 /\ nextConn = 0 /\ closedConns = {} /\ issued = {} /\ created = {} /\ lastOp = "none"

\* The caller holds one of the histories of H.
HeapInit(H) ==
    \E d \in H : LET b == BuildMsgs(<<>>, d, 1, <<>>) IN
        heap = b.heap /\ messages = b.ref /\ heap0 = b.heap

\* No call yet; the call to come has its stream argument in S.
CallInit(S, at) ==
    /\ stream \in S
    /\ pc = at
    /\ localClient = 0 /\ sent = 0 /\ events = <<>> /\ chunk = NoChunk
    /\ nOut = 0 /\ tcAddr = 0 /\ nChunks = 0 /\ failure = "none"

ToolIdle ==
    toolKind = "read" /\ toolName = "base_tool" /\ toolParams = PyEmptyDict
    /\ toolRet = NoConfirmation /\ toolPc = "off"

ScoutIdle ==
    scInv = [shape |-> "dict", query |-> "absent"] /\ scRag = "missing" /\ scPc = "off"
    /\ scQuery = "absent" /\ scRet = NoToolResult

\* One chat_completion call, streaming or not, on a new LLMClient.
Init ==
    /\ ClientInit /\ HeapInit(FewHistories) /\ CallInit(BOOLEAN, "idle")
    /\ SanIdle /\ ToolIdle /\ ScoutIdle

Next ==
    \/ ChatStart
    \/ CreateFail
    \/ CreateOkStream
    \/ ChunkArrives
    \/ StreamEnd
    \/ StreamFail
    \/ CreateOkNonStream
    \/ NonStreamComplete

Spec == Init /\ [][Next]_vars

\* One non-streaming chat_completion call on any history.
InitFrame ==
    /\ ClientInit /\ HeapInit(Histories) /\ CallInit({FALSE}, "idle")
    /\ SanIdle /\ ToolIdle /\ ScoutIdle

NextFrame ==
    \/ ChatStart
    \/ CreateFail
    \/ CreateOkNonStream
    \/ NonStreamComplete

SpecFrame == InitFrame /\ [][NextFrame]_vars

\* Any sequence of get_client, close and non-streaming chat_completion
\* calls on one LLMClient.
InitClient ==
    /\ ClientInit /\ HeapInit(FewHistories) /\ CallInit({FALSE}, "idle")
    /\ SanIdle /\ ToolIdle /\ ScoutIdle

NextClient ==
    \/ GetClient
    \/ Close
    \/ ChatStart
    \/ CreateFail
    \/ CreateOkNonStream
    \/ NonStreamComplete
    \/ Return

SpecClient == InitClient /\ [][NextClient]_vars

\* The argument repair applied to one value.
InitSanitize ==
    /\ ClientInit /\ HeapInit({<<>>}) /\ CallInit({FALSE}, "off")
    /\ sanArg \in SanInputs /\ sanOut = NoResult /\ sanPc = "ready"
    /\ ToolIdle /\ ScoutIdle

NextSanitize == Sanitize

SpecSanitize == InitSanitize /\ [][NextSanitize]_vars

\* get_confirmation on one tool.
InitTool ==
    /\ ClientInit /\ HeapInit({<<>>}) /\ CallInit({FALSE}, "off")
    /\ SanIdle /\ ScoutIdle
    /\ toolKind \in ToolKinds /\ toolName \in ToolNames /\ toolParams \in Mappings
    /\ toolRet = NoConfirmation /\ toolPc = "ready"

NextTool == GetConfirmation

SpecTool == InitTool /\ [][NextTool]_vars

\* One ScoutTool.execute call.
InitScout ==
    /\ ClientInit /\ HeapInit({<<>>}) /\ CallInit({FALSE}, "off")
    /\ SanIdle /\ ToolIdle
    /\ scInv \in Invocations /\ scRag \in RagStates /\ scPc = "start"
    /\ scQuery = "absent" /\ scRet = NoToolResult

NextScout ==
    \/ ScoutParse
    \/ ScoutCheck
    \/ ScoutQuery

SpecScout == InitScout /\ [][NextScout]_vars

\* -------------------------------------------------------------------- claims

IsTerminal(e) == e.type \in {"MESSAGE_COMPLETE", "ERROR"}

\* C1: the events of a call drained to its end hold exactly one
\* MESSAGE_COMPLETE or ERROR event, and it is the last one; no event ever
\* follows a MESSAGE_COMPLETE or ERROR event.
C1_OneTerminalEventLast ==
    /\ \A i \in 1..(Len(events) - 1) : ~IsTerminal(events[i])
    /\ pc = "done" => events # <<>> /\ IsTerminal(events[Len(events)])

\* A stream that yielded text and a tool call and then failed.
C1_Witness ==
    /\ pc = "done" /\ stream /\ failure = "stream"
    /\ events[Len(events)].type = "ERROR"
    /\ \E i, j \in 1..(Len(events) - 1) :
        events[i].type = "TEXT_DELTA" /\ events[j].type = "TOOL_CALL_COMPLETE"

\* C2: a failure at any step of the call (the client, the sanitization,
\* the request, a chunk) ends the call with exactly one ERROR event, which
\* carries a message and is the last event; it is not raised to the caller;
\* a request that fails at once yields the ERROR event alone.
C2_FailureBecomesOneError ==
    failure # "none" =>
        /\ pc = "done"
        /\ events # <<>>
        /\ events[Len(events)].type = "ERROR" /\ events[Len(events)].error # ""
        /\ Cardinality({i \in 1..Len(events) : events[i].type = "ERROR"}) = 1
        /\ failure = "request" => Len(events) = 1

\* The result the sanitization of a text is documented to have.
DocumentedRepair(text) ==
    IF JsonLoads(text).ok THEN text
    ELSE IF LiteralEval(text).ok /\ JsonDumps(LiteralEval(text).v).ok
         THEN JsonDumps(LiteralEval(text).v).text
         ELSE text

\* C3: the sanitization of a tool call's arguments never raises; a mapping
\* becomes its JSON text, which parses back to an equal mapping; a string
\* that is JSON stays; a string that is a literal becomes the JSON text of
\* its value; any other string stays.
C3_SanitizeAsDocumented ==
    sanPc = "done" =>
        /\ ~sanOut.raised
        /\ sanArg.kind = "value" =>
            /\ sanOut.a.kind = "str"
            /\ JsonLoads(sanOut.a.text) = [ok |-> TRUE, v |-> sanArg.v]
        /\ sanArg.kind = "str" => sanOut.a = AStr(DocumentedRepair(sanArg.text))

\* The part of C3 about strings.
SanitizeStringsAsDocumented ==
    sanPc = "done" /\ sanArg.kind = "str" =>
        ~sanOut.raised /\ sanOut.a = AStr(DocumentedRepair(sanArg.text))

\* The arguments a streamed tool call is documented to carry: {} when
\* they are missing, the parsed value when they are JSON, the parsed value
\* of their repair when the repair is JSON, and else the raw string.
DocumentedDecode(a) ==
    IF a.kind = "none" THEN AVal(PyEmptyDict)
    ELSE IF JsonLoads(a.text).ok THEN AVal(JsonLoads(a.text).v)
    ELSE IF JsonLoads(DocumentedRepair(a.text)).ok THEN AVal(JsonLoads(DocumentedRepair(a.text)).v)
    ELSE a

\* The events the chunk in hand produced.
ChunkOutput == SubSeq(events, Len(events) - nOut + 1, Len(events))

\* C4: a chunk whose first tool-call fragment has a name yields exactly
\* one TOOL_CALL_COMPLETE event, with the arguments decoded as documented.
C4_ToolCallArgumentsDecoded ==
    (pc = "streaming" /\ chunk.choices /\ chunk.has_tc /\ chunk.has_fn /\ chunk.name # "") =>
        /\ Cardinality({i \in 1..nOut : ChunkOutput[i].type = "TOOL_CALL_COMPLETE"}) = 1
        /\ \A i \in 1..nOut :
            ChunkOutput[i].type = "TOOL_CALL_COMPLETE" =>
                ChunkOutput[i].arguments = DocumentedDecode(chunk.args)

\* C5: (1, 2) after close no connection is cached, and every connection
\* created is closed unless it is the cached one; (3) between two closes at
\* most one connection is created, and get_client and chat_completion all
\* use it; (4) after a close they use a connection that was never closed.
C5_ConnectionLifecycle ==
    /\ lastOp = "close" => client = 0
    /\ nextConn = Cardinality(closedConns) + (IF client = 0 THEN 0 ELSE 1)
    /\ Cardinality(created) <= 1
    /\ lastOp \in {"get_client", "chat"} => client # 0 /\ issued = {client}
    /\ client = 0 => issued = {}
    /\ issued \cap closedConns = {}
    /\ pc = "requested" /\ lastOp = "chat" => localClient = client

\* A call made after a close, with its own connection.
C5_Witness ==
    lastOp = "chat" /\ closedConns # {} /\ client = 2 /\ localClient = 2 /\ pc = "requested"

\* C6: get_confirmation returns nothing exactly for the kinds READ and
\* MCP, and for WRITE, SHELL, NETWORK and MEMORY a ToolConfirmation with the
\* tool's name, the invocation's params and "Execute <name>".
C6_ConfirmationIffMutating ==
    toolPc = "done" =>
        /\ toolRet.none <=> toolKind \in {"read", "mcp"}
        /\ ~toolRet.none =>
            /\ toolRet.conf.tool_name = toolName
            /\ toolRet.conf.params = toolParams
            /\ toolName = "base_tool" => toolRet.conf.description = "Execute base_tool"
            /\ toolName = "codebase_scout" => toolRet.conf.description = "Execute codebase_scout"
            /\ toolName = "shell" => toolRet.conf.description = "Execute shell"

\* A MEMORY tool asked to confirm non-empty params.
C6_Witness ==
    toolPc = "done" /\ toolKind = "memory" /\ toolParams # PyEmptyDict /\ ~toolRet.none

\* C7: execute ends by returning a ToolResult, never by an exception; with
\* no query, or the collaborator missing, not initialised or raising, the
\* result is a failed one with its error set.
C7_ExecuteReturnsResult ==
    scPc \in {"returned", "raised"} =>
        /\ scPc = "returned"
        /\ (scQuery \in {"absent", ""} \/ scRag \in {"missing", "init_failed", "raises"}) =>
            ~scRet.success /\ scRet.error # "None"

\* C8: the TOOL_CALL_COMPLETE events of one stream have pairwise distinct
\* call_id values.
C8_CallIdsDistinct ==
    \A i, j \in 1..Len(events) :
        (i # j /\ events[i].type = "TOOL_CALL_COMPLETE" /\ events[j].type = "TOOL_CALL_COMPLETE")
            => events[i].call_id # events[j].call_id

\* C9: every TEXT_DELTA event carries non-empty text.
C9_TextDeltaNonEmpty ==
    \A i \in 1..Len(events) : events[i].type = "TEXT_DELTA" => Truthy(events[i].text_delta.content)

\* The arguments of the tool calls of the message list at ref, in order.
ArgsOf(h, ref) ==
    [i \in 1..Len(h[ref].items) |->
        LET tcs == h[h[ref].items[i]].tool_calls IN
        IF tcs = 0 THEN <<>>
        ELSE [k \in 1..Len(h[tcs].items) |-> h[h[h[tcs].items[k]].function].arguments]]

\* C10: whatever the outcome of the call, every object of the caller's
\* history is as it was before the call; the list sent to the endpoint
\* holds the repaired arguments.
C10_CallerMessagesUnchanged ==
    /\ Len(heap) >= Len(heap0)
    /\ \A r \in 1..Len(heap0) : heap[r] = heap0[r]
    /\ sent # 0 =>
        /\ sent > Len(heap0)
        /\ \A i \in 1..Len(heap[messages].items) : \A k \in 1..Len(ArgsOf(heap, messages)[i]) :
            ArgsOf(heap, sent)[i][k] = SanitizeArgs(ArgsOf(heap0, messages)[i][k]).a

\* A completed call on two messages whose copy differs from the history.
C10_Witness ==
    /\ pc = "done" /\ sent # 0 /\ Len(heap[messages].items) = 2
    /\ ArgsOf(heap, sent) # ArgsOf(heap0, messages)

====
